---- MODULE Spec2Model ----
(***************************************************************************)
(* Request handlers of the AI Tutor API (backend/app/main.py): POST       *)
(* /upload, POST /chat and GET /images/{topic_id}, together with the       *)
(* shared state they act on: the per-topic persisted store, the process-   *)
(* wide rag_pipeline (chunk list and vector index) and the process-wide    *)
(* image_retriever (image catalog).                                        *)
(*                                                                         *)
(* The handlers are coroutines of one event loop.  Each handler is split   *)
(* into the statements that call a collaborator; `running` is the task     *)
(* that holds the event loop, which a coroutine gives up only at an await  *)
(* or when it returns or raises.                                           *)
(*                                                                         *)
(* app.utils, app.rag and app.image_retrieval are modelled from the        *)
(* design document (sections 4.2 - 4.5).                                   *)
(***************************************************************************)
EXTENDS Integers, Sequences, FiniteSets, Bags, TLC

\* ------------------------------------------------------------------ bounds
\* Requests that can be in flight on the process at the same time: received
\* and not yet answered.
MaxInFlight == 2
\* Requests the clients send in a run.
MaxRequests == 2

\* --------------------------------------------------------------- constants
\* k of rag_pipeline.retrieve_chunks(request.question, k=4).
K == 4
\* Image Retriever: a maximum score at or below the threshold yields no image.
RelevanceThreshold == 0

\* ------------------------------------------------------------------ inputs
Slots == 1..MaxInFlight

\* Uploaded filenames; the last one is not a PDF.
Filenames == {"a.pdf", "b.pdf", "notes.txt"}

\* file.filename.lower().endswith('.pdf')
IsPdf(filename) == filename \in {"a.pdf", "b.pdf"}

PdfFiles == {f \in Filenames : IsPdf(f)}

\* generate_topic_id: a stable id derived deterministically from the filename.
generate_topic_id(filename) ==
    CASE filename = "a.pdf" -> "topic_a"
      [] filename = "b.pdf" -> "topic_b"
      [] OTHER -> "topic_notes"

TopicIds == {generate_topic_id(f) : f \in Filenames}

\* Chunk: text and source page.  The chunk of page n of the course material.
PageChunk(n) ==
    [text |-> CASE n = 1 -> "light" [] n = 2 -> "chlorophyll" [] OTHER -> "energy", page |-> n]

\* The chunks of the pages S, in page order.
RECURSIVE InPageOrder(_)
InPageOrder(S) ==
    IF S = {} THEN <<>>
    ELSE LET n == CHOOSE m \in S : \A k \in S : m <= k
         IN <<PageChunk(n)>> \o InPageOrder(S \ {n})

\* What create_text_chunks(extract_text_from_pdf(path)) can yield for an upload:
\* pages without text yield no chunk.
Pages == {1, 2}
Documents == {InPageOrder(S) : S \in SUBSET Pages}

\* ImageRecord: id, filename, title, descriptive keywords.
ImgLeaf == [id |-> "img1", filename |-> "leaf.png", title |-> "Leaf", keywords |-> {"leaf", "light"}]
ImgSun == [id |-> "img2", filename |-> "sun.png", title |-> "Sun", keywords |-> {"sun"}]

\* What discover_images_from_folder("images") can return at a call: the folder
\* is read anew at every call.
ImageFolders == {<<>>, <<ImgSun, ImgLeaf>>}

\* A question: its embedding and its keywords.
Questions == {[vec |-> 21, kw |-> {}]}
NoQuestion == [vec |-> 0, kw |-> {}]

\* Texts the generation service can return, as their keyword sets.
Answers == {{}, {"leaf"}}

\* The external embedding model, on the chunk texts.
Vec(text) == CASE text = "light" -> 10 [] text = "chlorophyll" -> 20 [] text = "energy" -> 30 [] OTHER -> 0

\* Requests the clients can send.
UploadRequests == {[kind |-> "upload", filename |-> f, topic_id |-> "", question |-> NoQuestion] : f \in Filenames}
ChatRequests == {[kind |-> "chat", filename |-> "", topic_id |-> t, question |-> q] :
                    t \in {"topic_a", "topic_b"}, q \in Questions}
ImageRequests == {[kind |-> "images", filename |-> "", topic_id |-> t, question |-> NoQuestion] :
                    t \in {"topic_a", "topic_b"}}
Requests == UploadRequests \cup ChatRequests \cup ImageRequests
NoRequest == [kind |-> "", filename |-> "", topic_id |-> "", question |-> NoQuestion]

\* ------------------------------------------------------------------- state
VARIABLES
    persisted,   \* data/embeddings: topic_id -> what save_embeddings wrote
    rag_chunks,  \* rag_pipeline.chunks
    rag_index,   \* rag_pipeline's in-memory vector index
    catalog,     \* image_retriever's active catalog
    pending,     \* the requests received whose handler has not begun, a bag
    running,     \* the slot whose coroutine holds the event loop, 0 if none
    pc,          \* per slot: where its handler is, "idle" if the slot is free
    req,         \* per slot: the request
    loc,         \* per slot: the handler's local variables
    sent,        \* the response the last step sent, if it ended a request
    nreq,        \* requests received so far
    uploaded     \* per PDF filename: how many uploads of it succeeded, the
                 \* topic id they returned and, while no upload of it began
                 \* since the last one that succeeded, what that one returned
                 \* and saved

vars == <<persisted, rag_chunks, rag_index, catalog, pending, running, pc, req, loc, sent, nreq, uploaded>>

shared == <<persisted, rag_chunks, rag_index, catalog>>

NoTopic == [exists |-> FALSE, chunks |-> <<>>, images |-> <<>>]
NoUpload == [exists |-> FALSE, topic_id |-> "", count |-> 0, chunks_created |-> 0,
             chunks |-> <<>>, images |-> <<>>]
NoIndex == [exists |-> FALSE, recs |-> <<>>]
NoLoc == [chunks |-> <<>>, images |-> <<>>, topic_id |-> "", image_metadata |-> <<>>,
          relevant_chunks |-> <<>>, answer |-> {}, calls |-> <<>>,
          built |-> "",     \* how the handler's create_embeddings call got its index
          before |-> [t \in TopicIds |-> NoTopic]]   \* `persisted` when the handler began
\* A response: the fields of UploadResponse, ChatResponse or the error, and for
\* the record the request it answers, the statement that raised (`at`) and
\* the handler's local variables when it ended.
NoResp == [slot |-> 0, kind |-> "", filename |-> "", status |-> 0, detail |-> "", topic_id |-> "", chunks_created |-> 0,
           answer |-> {}, image |-> {}, sources |-> {}, images |-> <<>>, at |-> "", locals |-> NoLoc]


\* --------------------------------------------- app.utils: persisted storage
\* Persisted form of a chunk list: text and page of each chunk, in order.
SerializeChunks(chunks) == [i \in 1..Len(chunks) |-> <<chunks[i].text, chunks[i].page>>]
DeserializeChunks(rows) == [i \in 1..Len(rows) |-> [text |-> rows[i][1], page |-> rows[i][2]]]

\* Persisted form of the image metadata.
SerializeImages(images) ==
    [i \in 1..Len(images) |-> <<images[i].id, images[i].filename, images[i].title, images[i].keywords>>]
DeserializeImages(rows) ==
    [i \in 1..Len(rows) |->
        [id |-> rows[i][1], filename |-> rows[i][2], title |-> rows[i][3], keywords |-> rows[i][4]]]

\* save_embeddings(topic_id, chunks, images): writes the topic's entry, whole.
save_embeddings(store, topic_id, chunks, images) ==
    [store EXCEPT ![topic_id] =
        [exists |-> TRUE, chunks |-> SerializeChunks(chunks), images |-> SerializeImages(images)]]

\* load_embeddings(topic_id): (chunks, images), or (None, None) for an unknown topic.
load_embeddings(store, topic_id) ==
    IF store[topic_id].exists
    THEN [found |-> TRUE, chunks |-> DeserializeChunks(store[topic_id].chunks),
          images |-> DeserializeImages(store[topic_id].images)]
    ELSE [found |-> FALSE, chunks |-> <<>>, images |-> <<>>]

\* ------------------------------------------------- app.rag: Embedding Store
\* EmbeddingRecord: a chunk and its vector.
Embed(chunk) == [chunk |-> chunk, vector |-> Vec(chunk.text)]
BuildIndex(chunks) == [i \in 1..Len(chunks) |-> Embed(chunks[i])]
IndexChunks(index) == [i \in 1..Len(index.recs) |-> index.recs[i].chunk]

\* The index is rebuilt when regenerate is set, when there is none in memory,
\* or when the one in memory was built for another chunk set.
NeedsRebuild(index, chunks, regenerate) ==
    regenerate \/ ~index.exists \/ IndexChunks(index) # chunks

\* The embedding service is called once per chunk of a rebuild, and can fail.
EmbeddingCanFail(index, chunks, regenerate) ==
    NeedsRebuild(index, chunks, regenerate) /\ chunks # <<>>

\* rag_pipeline.create_embeddings(chunks, regenerate): the pipeline afterwards.
create_embeddings(index, chunks, regenerate) ==
    [chunks |-> chunks,
     index |-> IF NeedsRebuild(index, chunks, regenerate)
               THEN [exists |-> TRUE, recs |-> BuildIndex(chunks)]
               ELSE index]

\* ------------------------------------------------ app.rag: Chunk Retriever
Abs(n) == IF n < 0 THEN -n ELSE n
Distance(question, rec) == Abs(question.vec - rec.vector)

\* The closest record among positions S; ties go to the lower position.
Closest(recs, question, S) ==
    CHOOSE i \in S : \A j \in S :
        \/ Distance(question, recs[i]) < Distance(question, recs[j])
        \/ Distance(question, recs[i]) = Distance(question, recs[j]) /\ i <= j

RECURSIVE TopK(_, _, _, _)
TopK(recs, question, S, k) ==
    IF k = 0 \/ S = {} THEN <<>>
    ELSE LET i == Closest(recs, question, S)
         IN <<recs[i].chunk>> \o TopK(recs, question, S \ {i}, k - 1)

\* rag_pipeline.retrieve_chunks(question, k): up to k chunks, nearest first;
\* the empty sequence on an empty index.
retrieve_chunks(index, question, k) ==
    IF ~index.exists \/ index.recs = <<>> THEN <<>>
    ELSE TopK(index.recs, question, 1..Len(index.recs), k)

\* ------------------------------------- app.image_retrieval: Image Retriever
\* Keyword overlap of an image with the answer and question text.
Score(img, answer, question) == Cardinality(img.keywords \cap (answer \cup question.kw))

\* image_retriever.find_relevant_image(answer, question): the first image of
\* the catalog with the maximum score, none if that score is at or below the
\* threshold.  The result is a set with at most one record.
find_relevant_image(cat, answer, question) ==
    IF cat = <<>> THEN {}
    ELSE LET best == CHOOSE i \in 1..Len(cat) : \A j \in 1..Len(cat) :
                        \/ Score(cat[i], answer, question) > Score(cat[j], answer, question)
                        \/ Score(cat[i], answer, question) = Score(cat[j], answer, question) /\ i <= j
         IN IF Score(cat[best], answer, question) <= RelevanceThreshold THEN {} ELSE {cat[best]}

\* ----------------------------------------------------------- the event loop
\* Variant: the handlers give up the event loop between their statements, as
\* they would if they awaited their collaborators or ran in a thread pool.
NextRunning_Yields(r, to) == 0

\* upload_pdf and chat are `async def` and contain no await: once started, the
\* coroutine keeps the event loop until it returns or raises.
NextRunning(r, to) == IF to = "idle" THEN 0 ELSE r

CanRun(r) == running \in {0, r}

\* A handler begins in the first free slot.
Free(r) == pc[r] = "idle" /\ \A q \in Slots : pc[q] = "idle" => r <= q

\* The requests of a kind that wait for their handler.
Waiting(kind) == {request \in BagToSet(pending) : request.kind = kind}

\* The response to `request`, sent from slot r by a handler with local variables l.
Answer(r, request, response, l) ==
    [response EXCEPT
        !.slot = r,
        !.kind = request.kind,
        !.filename = request.filename,
        !.topic_id = IF request.kind = "upload" THEN response.topic_id ELSE request.topic_id,
        !.locals = IF response.locals # NoLoc THEN response.locals ELSE l]

\* The handler of `request` begins in slot r and gets to `to` with local variables l.
Begin(r, request, to, l) ==
    /\ pending' = pending (-) SetToBag({request})
    /\ req' = [req EXCEPT ![r] = request]
    /\ pc' = [pc EXCEPT ![r] = to]
    /\ loc' = [loc EXCEPT ![r] = l]
    /\ running' = NextRunning(r, to)
    /\ sent' = NoResp
    /\ UNCHANGED nreq

\* The handler of `request` begins in slot r and ends at once with `response`.
Reply(r, request, response) ==
    /\ pending' = pending (-) SetToBag({request})
    /\ sent' = Answer(r, request, response, [NoLoc EXCEPT !.before = persisted])
    /\ running' = NextRunning(r, "idle")
    /\ UNCHANGED <<pc, req, loc, nreq>>

\* The handler of slot r moves to `to` with local variables l.
Step(r, to, l) ==
    /\ pc' = [pc EXCEPT ![r] = to]
    /\ loc' = [loc EXCEPT ![r] = l]
    /\ running' = NextRunning(r, to)
    /\ sent' = NoResp
    /\ UNCHANGED <<pending, req, nreq>>

\* The handler of slot r ends with `response`.
Finish(r, response) ==
    /\ pc' = [pc EXCEPT ![r] = "idle"]
    /\ loc' = [loc EXCEPT ![r] = NoLoc]
    /\ req' = [req EXCEPT ![r] = NoRequest]
    /\ sent' = Answer(r, req[r], response, loc[r])
    /\ running' = NextRunning(r, "idle")
    /\ UNCHANGED <<pending, nreq>>

\* raise HTTPException(status_code, detail), or an exception FastAPI turns into 500.
Error(status, detail, at) == [NoResp EXCEPT !.status = status, !.detail = detail, !.at = at]

\* What data/embeddings can hold for a topic when the process starts: nothing,
\* or what an upload of an earlier run saved.
StoredTopics ==
    {NoTopic} \cup
    {[exists |-> TRUE, chunks |-> SerializeChunks(d), images |-> SerializeImages(f)] :
        d \in Documents, f \in ImageFolders}

\* The two topics are interchangeable: of two stores that differ by swapping
\* them, one is an initial state.
StoreSize(topic) ==
    IF topic.exists THEN 1 + 2 * Len(topic.chunks) + Len(topic.images) ELSE 0

Init ==
    /\ persisted \in [TopicIds -> StoredTopics]
    /\ persisted[generate_topic_id("notes.txt")] = NoTopic
    /\ StoreSize(persisted["topic_a"]) <= StoreSize(persisted["topic_b"])
    /\ rag_chunks = <<>>
    /\ rag_index = NoIndex
    /\ catalog = <<>>
    /\ pending = EmptyBag
    /\ running = 0
    /\ pc = [r \in Slots |-> "idle"]
    /\ req = [r \in Slots |-> NoRequest]
    /\ loc = [r \in Slots |-> NoLoc]
    /\ sent = NoResp
    /\ nreq = 0
    /\ uploaded = [f \in PdfFiles |-> NoUpload]

\* The requests received and not yet answered.
InFlight == BagCardinality(pending) + Cardinality({r \in Slots : pc[r] # "idle"})

\* A client sends a request.
Arrive ==
    /\ nreq < MaxRequests
    /\ InFlight < MaxInFlight
    /\ nreq' = nreq + 1
    /\ \E request \in Requests : pending' = pending (+) SetToBag({request})
    /\ sent' = NoResp
    /\ UNCHANGED <<shared, running, pc, req, loc, uploaded>>

\* ------------------------------------------------------------ POST /upload
\* An upload of `filename` begins: what the previous one saved is no longer
\* promised to be there.
Forget(filename) ==
    [uploaded EXCEPT ![filename] = [@ EXCEPT !.exists = FALSE, !.chunks_created = 0,
                                             !.chunks = <<>>, !.images = <<>>]]

\* if not file.filename.lower().endswith('.pdf'): raise HTTPException(400)
UploadReject(r) ==
    /\ CanRun(r)
    /\ Free(r)
    /\ \E request \in Waiting("upload") :
          /\ ~IsPdf(request.filename)
          /\ Reply(r, request, Error(400, "Only PDF files are allowed", "filename"))
    /\ UNCHANGED <<shared, uploaded>>

\* The file is saved; text extraction, chunking, topic id.  Extraction can raise.
UploadExtract(r) ==
    /\ CanRun(r)
    /\ Free(r)
    /\ \E request \in Waiting("upload") :
          /\ IsPdf(request.filename)
          /\ uploaded' = Forget(request.filename)
          /\ \/ \E chunks \in Documents :
                  Begin(r, request, "up_build",
                        [NoLoc EXCEPT !.chunks = chunks,
                                      !.topic_id = generate_topic_id(request.filename),
                                      !.before = persisted])
             \/ Reply(r, request, Error(500, "Error processing PDF", "extract"))
    /\ UNCHANGED shared

\* rag_pipeline.create_embeddings(chunks, regenerate=True)
UploadBuild(r) ==
    /\ CanRun(r)
    /\ pc[r] = "up_build"
    /\ \/ /\ rag_chunks' = create_embeddings(rag_index, loc[r].chunks, TRUE).chunks
          /\ rag_index' = create_embeddings(rag_index, loc[r].chunks, TRUE).index
          /\ Step(r, "up_images", [loc[r] EXCEPT !.built = "rebuilt"])
       \/ /\ EmbeddingCanFail(rag_index, loc[r].chunks, TRUE)
          /\ Finish(r, Error(500, "Error processing PDF", "build"))
          /\ UNCHANGED <<rag_chunks, rag_index>>
    /\ UNCHANGED <<persisted, catalog, uploaded>>

\* discover_images_from_folder("images"); image_retriever.load_image_metadata(...)
\* is called with whatever was found, the empty list included.
UploadImages(r) ==
    /\ CanRun(r)
    /\ pc[r] = "up_images"
    /\ \/ \E image_metadata \in ImageFolders :
            /\ catalog' = image_metadata
            /\ Step(r, "up_save", [loc[r] EXCEPT !.image_metadata = image_metadata])
       \/ /\ Finish(r, Error(500, "Error processing PDF", "discover"))
          /\ UNCHANGED catalog
    /\ UNCHANGED <<persisted, rag_chunks, rag_index, uploaded>>

\* Variant: the upload adds its chunks and images to what the topic holds.
UploadSave_Appends(r) ==
    /\ CanRun(r)
    /\ pc[r] = "up_save"
    /\ LET old == load_embeddings(persisted, loc[r].topic_id)
       IN persisted' = save_embeddings(persisted, loc[r].topic_id,
                                       old.chunks \o loc[r].chunks,
                                       old.images \o loc[r].image_metadata)
    /\ Step(r, "up_copy", loc[r])
    /\ UNCHANGED <<rag_chunks, rag_index, catalog, uploaded>>

\* save_embeddings(topic_id, chunks, image_metadata); a failed write leaves the
\* previous version.
UploadSave(r) ==
    /\ CanRun(r)
    /\ pc[r] = "up_save"
    /\ \/ /\ persisted' = save_embeddings(persisted, loc[r].topic_id, loc[r].chunks, loc[r].image_metadata)
          /\ Step(r, "up_copy", loc[r])
       \/ /\ Finish(r, Error(500, "Error processing PDF", "save"))
          /\ UNCHANGED persisted
    /\ UNCHANGED <<rag_chunks, rag_index, catalog, uploaded>>

\* The discovered images are copied to data/images (shutil.copy2 can raise),
\* then UploadResponse(topic_id, message, chunks_created=len(chunks)).
UploadCopy(r) ==
    /\ CanRun(r)
    /\ pc[r] = "up_copy"
    /\ \/ /\ Finish(r, [NoResp EXCEPT !.status = 200, !.detail = "PDF processed successfully",
                                      !.topic_id = loc[r].topic_id,
                                      !.chunks_created = Len(loc[r].chunks)])
          /\ uploaded' = [uploaded EXCEPT ![req[r].filename] =
                            [exists |-> TRUE, topic_id |-> loc[r].topic_id, count |-> @.count + 1,
                             chunks_created |-> Len(loc[r].chunks),
                             chunks |-> loc[r].chunks, images |-> loc[r].image_metadata]]
       \/ /\ loc[r].image_metadata # <<>>
          /\ Finish(r, Error(500, "Error processing PDF", "copy"))
          /\ UNCHANGED uploaded
    /\ UNCHANGED shared

\* -------------------------------------------------------------- POST /chat
\* Variant: `if not chunks` in place of `if chunks is None`.
ChatLoad_FalsyCheck(r) ==
    /\ CanRun(r)
    /\ Free(r)
    /\ \E request \in Waiting("chat") :
          LET loaded == load_embeddings(persisted, request.topic_id)
          IN IF ~loaded.found \/ loaded.chunks = <<>>
             THEN Reply(r, request, Error(404, "Topic not found", "load"))
             ELSE Begin(r, request, "chat_build",
                        [NoLoc EXCEPT !.chunks = loaded.chunks,
                                      !.images = loaded.images,
                                      !.topic_id = request.topic_id,
                                      !.before = persisted])
    /\ UNCHANGED <<shared, uploaded>>

\* Variant: rag_pipeline.chunks is assigned before the check for None.
ChatLoad_InstallsFirst(r) ==
    /\ CanRun(r)
    /\ Free(r)
    /\ \E request \in Waiting("chat") :
          LET loaded == load_embeddings(persisted, request.topic_id)
          IN /\ rag_chunks' = loaded.chunks
             /\ IF ~loaded.found
                THEN Reply(r, request, Error(404, "Topic not found", "load"))
                ELSE Begin(r, request, "chat_build",
                           [NoLoc EXCEPT !.chunks = loaded.chunks,
                                         !.images = loaded.images,
                                         !.topic_id = request.topic_id,
                                         !.before = persisted])
    /\ UNCHANGED <<persisted, rag_index, catalog, uploaded>>

\* chunks, images = load_embeddings(request.topic_id); 404 if chunks is None.
ChatLoad(r) ==
    /\ CanRun(r)
    /\ Free(r)
    /\ \E request \in Waiting("chat") :
          LET loaded == load_embeddings(persisted, request.topic_id)
          IN IF ~loaded.found
             THEN Reply(r, request, Error(404, "Topic not found", "load"))
             ELSE Begin(r, request, "chat_build",
                        [NoLoc EXCEPT !.chunks = loaded.chunks,
                                      !.images = loaded.images,
                                      !.topic_id = request.topic_id,
                                      !.before = persisted])
    /\ UNCHANGED <<shared, uploaded>>

\* Variant: the pipeline is set up only when it holds no index yet.
ChatBuild_KeepsIndex(r) ==
    /\ CanRun(r)
    /\ pc[r] = "chat_build"
    /\ IF rag_index.exists
       THEN UNCHANGED <<rag_chunks, rag_index>>
       ELSE /\ rag_chunks' = create_embeddings(rag_index, loc[r].chunks, FALSE).chunks
            /\ rag_index' = create_embeddings(rag_index, loc[r].chunks, FALSE).index
    /\ Step(r, "chat_images", [loc[r] EXCEPT !.built = IF rag_index.exists THEN "reused" ELSE "built"])
    /\ UNCHANGED <<persisted, catalog, uploaded>>

\* Variant: rag_pipeline.chunks is assigned and create_embeddings is not called.
ChatBuild_SetsChunksOnly(r) ==
    /\ CanRun(r)
    /\ pc[r] = "chat_build"
    /\ rag_chunks' = loc[r].chunks
    /\ UNCHANGED rag_index
    /\ Step(r, "chat_images", [loc[r] EXCEPT !.built = "reused"])
    /\ UNCHANGED <<persisted, catalog, uploaded>>

\* rag_pipeline.chunks = chunks; rag_pipeline.create_embeddings(chunks)
ChatBuild(r) ==
    /\ CanRun(r)
    /\ pc[r] = "chat_build"
    /\ \/ /\ rag_chunks' = create_embeddings(rag_index, loc[r].chunks, FALSE).chunks
          /\ rag_index' = create_embeddings(rag_index, loc[r].chunks, FALSE).index
          /\ Step(r, "chat_images",
                  [loc[r] EXCEPT !.built = IF ~rag_index.exists THEN "built"
                                           ELSE IF NeedsRebuild(rag_index, loc[r].chunks, FALSE)
                                           THEN "rebuilt" ELSE "reused"])
       \/ /\ EmbeddingCanFail(rag_index, loc[r].chunks, FALSE)
          /\ rag_chunks' = loc[r].chunks
          /\ UNCHANGED rag_index
          /\ Finish(r, Error(500, "Internal Server Error", "build"))
    /\ UNCHANGED <<persisted, catalog, uploaded>>

\* image_metadata = discover_images_from_folder("images"); the catalog is
\* loaded from it if it is not empty, else from the saved images if those are
\* not empty, else it is left as it is.
ChatImages(r) ==
    /\ CanRun(r)
    /\ pc[r] = "chat_images"
    /\ \/ \E image_metadata \in ImageFolders :
            /\ catalog' = IF image_metadata # <<>> THEN image_metadata
                          ELSE IF loc[r].images # <<>> THEN loc[r].images
                          ELSE catalog
            /\ \/ Step(r, "chat_retrieve", [loc[r] EXCEPT !.image_metadata = image_metadata])
               \/ /\ image_metadata # <<>>
                  /\ Finish(r, Error(500, "Internal Server Error", "copy"))
       \/ /\ Finish(r, Error(500, "Internal Server Error", "discover"))
          /\ UNCHANGED catalog
    /\ UNCHANGED <<persisted, rag_chunks, rag_index, uploaded>>

\* relevant_chunks = rag_pipeline.retrieve_chunks(request.question, k=4)
ChatRetrieve(r) ==
    /\ CanRun(r)
    /\ pc[r] = "chat_retrieve"
    /\ \/ Step(r, "chat_generate",
               [loc[r] EXCEPT !.relevant_chunks = retrieve_chunks(rag_index, req[r].question, K),
                              !.calls = Append(@, "retrieve")])
       \/ /\ rag_index.exists /\ rag_index.recs # <<>>
          /\ Finish(r, [Error(500, "Internal Server Error", "retrieve")
                            EXCEPT !.locals = [loc[r] EXCEPT !.calls = Append(@, "retrieve")]])
    /\ UNCHANGED <<shared, uploaded>>

\* Variant: a failed generation call is made again.
ChatGenerate_Retries(r) ==
    /\ CanRun(r)
    /\ pc[r] = "chat_generate"
    /\ \/ \E answer \in Answers :
            Step(r, "chat_respond", [loc[r] EXCEPT !.answer = answer, !.calls = Append(@, "generate")])
       \/ Step(r, "chat_generate", [loc[r] EXCEPT !.calls = Append(@, "generate")])
    /\ UNCHANGED <<shared, uploaded>>

\* answer = rag_pipeline.generate_answer(request.question, relevant_chunks)
ChatGenerate(r) ==
    /\ CanRun(r)
    /\ pc[r] = "chat_generate"
    /\ \/ \E answer \in Answers :
            Step(r, "chat_respond", [loc[r] EXCEPT !.answer = answer, !.calls = Append(@, "generate")])
       \/ Finish(r, [Error(500, "Internal Server Error", "generate")
                        EXCEPT !.locals = [loc[r] EXCEPT !.calls = Append(@, "generate")]])
    /\ UNCHANGED <<shared, uploaded>>

\* "Page n" for a retrieved chunk.
Source(chunk) == <<"Page", chunk.page>>

\* relevant_image = image_retriever.find_relevant_image(answer, question);
\* sources = list(set(...)); ChatResponse(...)
ChatRespond(r) ==
    /\ CanRun(r)
    /\ pc[r] = "chat_respond"
    /\ Finish(r, [NoResp EXCEPT
            !.status = 200,
            !.answer = loc[r].answer,
            !.image = find_relevant_image(catalog, loc[r].answer, req[r].question),
            !.sources = {Source(loc[r].relevant_chunks[i]) : i \in 1..Len(loc[r].relevant_chunks)}])
    /\ UNCHANGED <<shared, uploaded>>

\* ------------------------------------------------- GET /images/{topic_id}
\* Variant: `if not images` in place of `if images is None`.
GetImages_FalsyCheck(r) ==
    /\ CanRun(r)
    /\ Free(r)
    /\ \E request \in Waiting("images") :
          LET loaded == load_embeddings(persisted, request.topic_id)
          IN IF ~loaded.found \/ loaded.images = <<>>
             THEN Reply(r, request, Error(404, "Topic not found", "load"))
             ELSE Reply(r, request, [NoResp EXCEPT !.status = 200, !.images = loaded.images])
    /\ UNCHANGED <<shared, uploaded>>

\* chunks, images = load_embeddings(topic_id); 404 if images is None.
GetImages(r) ==
    /\ CanRun(r)
    /\ Free(r)
    /\ \E request \in Waiting("images") :
          LET loaded == load_embeddings(persisted, request.topic_id)
          IN IF ~loaded.found
             THEN Reply(r, request, Error(404, "Topic not found", "load"))
             ELSE Reply(r, request, [NoResp EXCEPT !.status = 200, !.images = loaded.images])
    /\ UNCHANGED <<shared, uploaded>>

Next ==
    \/ Arrive
    \/ \E r \in Slots :
        \/ UploadReject(r)
        \/ UploadExtract(r)
        \/ UploadBuild(r)
        \/ UploadImages(r)
        \/ UploadSave(r)
        \/ UploadCopy(r)
        \/ ChatLoad(r)
        \/ ChatBuild(r)
        \/ ChatImages(r)
        \/ ChatRetrieve(r)
        \/ ChatGenerate(r)
        \/ ChatRespond(r)
        \/ GetImages(r)

Spec == Init /\ [][Next]_vars


\* ------------------------------------------------------------------ claims
Range(seq) == {seq[i] : i \in 1..Len(seq)}

\* The chunks and images a load of topic t returns now.
StoredChunks(t) == load_embeddings(persisted, t).chunks
StoredImages(t) == load_embeddings(persisted, t).images

ChatPcs == {"chat_build", "chat_images", "chat_retrieve", "chat_generate", "chat_respond"}

\* A chat request was answered with a ChatResponse in the last step.
ChatAnswered == sent.kind = "chat" /\ sent.status = 200

\* C1: the chunks a chat request for topic X retrieves, and the pages its
\* response cites, are chunks persisted for X; the pipeline it queries holds
\* X's persisted chunks and an index built from exactly those, also when the
\* index in memory was built for another chunk set before.
C1_ChatServesPersistedTopic ==
    /\ \A r \in Slots :
        /\ pc[r] \in {"chat_images", "chat_retrieve"} =>
              /\ rag_index.exists
              /\ rag_chunks = StoredChunks(req[r].topic_id)
              /\ rag_index.recs = BuildIndex(StoredChunks(req[r].topic_id))
        /\ pc[r] \in {"chat_generate", "chat_respond"} =>
              Range(loc[r].relevant_chunks) \subseteq Range(StoredChunks(req[r].topic_id))
    /\ ChatAnswered =>
          sent.sources \subseteq {Source(c) : c \in Range(StoredChunks(sent.topic_id))}

\* A chat request was answered from an index rebuilt because the one in memory
\* was built for another chunk set, and it cites a page.
C1_Witness ==
    /\ ChatAnswered
    /\ sent.locals.built = "rebuilt"
    /\ sent.sources # {}

\* The upload whose result is still promised for topic t, if any.
UploadsOf(t) == {f \in PdfFiles : uploaded[f].exists /\ uploaded[f].topic_id = t}

\* C2: after an upload returned topic T with chunks_created = n, and with no
\* later upload of that filename, a chat or image-metadata request for T is
\* not answered 404 and loads exactly the n chunks and the images the upload
\* saved.
C2_UploadedTopicIsLoaded ==
    \A f \in PdfFiles : uploaded[f].exists =>
        /\ Len(uploaded[f].chunks) = uploaded[f].chunks_created
        /\ \A r \in Slots :
              (pc[r] \in ChatPcs /\ req[r].topic_id = uploaded[f].topic_id) =>
                  /\ loc[r].chunks = uploaded[f].chunks
                  /\ Len(loc[r].chunks) = uploaded[f].chunks_created
                  /\ loc[r].images = uploaded[f].images
        /\ (sent.kind = "chat" /\ sent.topic_id = uploaded[f].topic_id) =>
              /\ sent.status # 404
              /\ sent.locals.chunks = uploaded[f].chunks
              /\ sent.locals.images = uploaded[f].images
        /\ (sent.kind = "images" /\ sent.topic_id = uploaded[f].topic_id) =>
              /\ sent.status = 200
              /\ sent.images = uploaded[f].images

\* A chat request was answered for a topic uploaded earlier with chunks and images.
C2_Witness ==
    /\ ChatAnswered
    /\ \E f \in UploadsOf(sent.topic_id) :
          /\ uploaded[f].chunks_created = 2
          /\ uploaded[f].images # <<>>
          /\ sent.locals.chunks = uploaded[f].chunks

\* This step answers a chat or image-metadata request for a topic without
\* persisted data.
AnswersUnknownTopic ==
    /\ sent'.kind \in {"chat", "images"}
    /\ ~persisted[sent'.topic_id].exists

\* C3: a chat or image-metadata request for a topic without persisted data is
\* answered 404 "Topic not found", makes no retrieval or generation call and
\* leaves the chunk list, the index, the catalog and the persisted data of
\* every topic as they were; no chat handler gets past the load for such a topic.
C3_UnknownTopicIs404 ==
    [][/\ AnswersUnknownTopic =>
            /\ sent'.status = 404
            /\ sent'.detail = "Topic not found"
            /\ sent'.locals.calls = <<>>
            /\ UNCHANGED <<shared, pc>>
       /\ \A r \in Slots : pc'[r] \in ChatPcs => persisted[req'[r].topic_id].exists]_vars

\* A chat request was answered 404 while the pipeline holds chunks and an index
\* and the image retriever a catalog.
C3_Witness ==
    /\ sent.kind = "chat"
    /\ sent.status = 404
    /\ rag_chunks # <<>>
    /\ rag_index.exists
    /\ catalog # <<>>

\* What an upload with these local variables leaves for its topic.
SavedBy(l) ==
    [exists |-> TRUE, chunks |-> SerializeChunks(l.chunks), images |-> SerializeImages(l.image_metadata)]

\* topic_id is the topic the upload of `filename` with local variables l wrote:
\* that topic holds exactly the upload's chunks and images, every other topic
\* what it held when the upload began, and the id is the one earlier uploads
\* of the filename returned.
OverwritesOwnTopic(filename, l) ==
    /\ persisted[l.topic_id] = SavedBy(l)
    /\ \A t \in TopicIds \ {l.topic_id} : persisted[t] = l.before[t]
    /\ uploaded[filename].count > 0 => uploaded[filename].topic_id = l.topic_id

\* C4: uploading the same filename again yields the same topic_id, and the
\* topic then holds exactly the later upload's chunks and images, not merged
\* with the earlier ones; no other topic is written.
C4_ReuploadOverwrites ==
    /\ \A r \in Slots : pc[r] = "up_copy" => OverwritesOwnTopic(req[r].filename, loc[r])
    /\ (sent.kind = "upload" /\ sent.status = 200) =>
          /\ OverwritesOwnTopic(sent.filename, sent.locals)
          /\ sent.topic_id = sent.locals.topic_id
          /\ sent.chunks_created = Len(sent.locals.chunks)

\* The second successful upload of a filename was answered, and it replaced
\* chunks and images that differ from its own.
C4_Witness ==
    /\ sent.kind = "upload"
    /\ sent.status = 200
    /\ uploaded[sent.filename].count = 2
    /\ sent.locals.before[sent.topic_id].exists
    /\ sent.locals.before[sent.topic_id].chunks # <<>>
    /\ sent.locals.before[sent.topic_id].chunks # persisted[sent.topic_id].chunks
    /\ sent.locals.before[sent.topic_id].images # persisted[sent.topic_id].images

\* C5: an upload that fails at any step after the file was received is
\* answered 500 and leaves the persisted chunks and images of every topic as
\* they were before the request.
C5_FailedUploadChangesNothing ==
    (sent.kind = "upload" /\ sent.status # 200 /\ sent.at # "filename") =>
        /\ sent.status = 500
        /\ persisted = sent.locals.before

\* C6: within a chat request the generation service is called at most once,
\* only after retrieval returned, and never again after a failure; a failed
\* call ends the request with an error that carries no answer, image or
\* sources.
C6_GenerationCalledOnce ==
    /\ \A r \in Slots :
          /\ loc[r].calls \in {<<>>, <<"retrieve">>, <<"retrieve", "generate">>}
          /\ pc[r] = "chat_generate" => loc[r].calls = <<"retrieve">>
          /\ pc[r] = "chat_respond" => loc[r].calls = <<"retrieve", "generate">>
    /\ sent.locals.calls \in {<<>>, <<"retrieve">>, <<"retrieve", "generate">>}
    /\ ChatAnswered => sent.locals.calls = <<"retrieve", "generate">>
    /\ sent.at = "generate" =>
          /\ sent.kind = "chat"
          /\ sent.status = 500
          /\ sent.locals.calls = <<"retrieve", "generate">>
          /\ sent.answer = {} /\ sent.image = {} /\ sent.sources = {}

\* The generation call of a chat request failed after a retrieval that
\* returned chunks.
C6_Witness ==
    /\ sent.at = "generate"
    /\ sent.locals.relevant_chunks # <<>>

\* C7: a document without chunks is uploaded like any other (the index build
\* does not fail on it), and a chat request for its topic is not answered 404:
\* retrieval on the empty index returns nothing and the response has no
\* sources.
C7_EmptyDocumentIsServed ==
    /\ (sent.kind = "upload" /\ sent.at # "" /\ sent.locals.topic_id # "" /\ sent.locals.chunks = <<>>) =>
          sent.at \in {"discover", "save", "copy"}
    /\ \A r \in Slots :
          (pc[r] \in {"chat_generate", "chat_respond"} /\ StoredChunks(req[r].topic_id) = <<>>) =>
              loc[r].relevant_chunks = <<>>
    /\ (sent.kind = "chat" /\ persisted[sent.topic_id].exists /\ StoredChunks(sent.topic_id) = <<>>) =>
          /\ sent.status # 404
          /\ sent.at \notin {"load", "build", "retrieve"}
          /\ sent.status = 200 => sent.sources = {}

\* A chat request was answered, without sources, for a topic that an upload
\* of this run saved with chunks_created = 0.
C7_Witness ==
    /\ ChatAnswered
    /\ sent.sources = {}
    /\ \E f \in UploadsOf(sent.topic_id) : uploaded[f].chunks_created = 0

\* C8: with chat requests for different topics in flight at once, each one
\* retrieves from the chunk list and the index it installed itself from its
\* own topic's chunks, and answers from those.
C8_ConcurrentChatsKeepTheirTopic ==
    /\ \A r \in Slots :
        /\ pc[r] \in {"chat_images", "chat_retrieve"} =>
              /\ rag_chunks = loc[r].chunks
              /\ IndexChunks(rag_index) = loc[r].chunks
        /\ pc[r] \in {"chat_generate", "chat_respond"} =>
              Range(loc[r].relevant_chunks) \subseteq Range(loc[r].chunks)
    /\ ChatAnswered =>
          sent.sources \subseteq {Source(c) : c \in Range(sent.locals.chunks)}

\* A chat request is about to retrieve while a chat request for another topic,
\* with other chunks, is in flight.
C8_Witness ==
    \E r \in Slots : \E other \in Waiting("chat") :
        /\ pc[r] = "chat_retrieve"
        /\ other.topic_id # req[r].topic_id
        /\ persisted[other.topic_id].exists
        /\ StoredChunks(other.topic_id) # loc[r].chunks
        /\ loc[r].chunks # <<>>

ChosenCatalog(l) == IF l.image_metadata # <<>> THEN l.image_metadata ELSE l.images

\* C10: the image of a chat response is a record of the catalog chosen in
\* that request; when nothing was discovered and the topic has no saved
\* images, the response carries no image.
C10_ImageFromChosenCatalog ==
    ChatAnswered => sent.image \subseteq Range(ChosenCatalog(sent.locals))

====
